---- MODULE Spec2Model ----
(***************************************************************************)
(* Screvi highlight sync plugin: the sync orchestrator (main.ts), the      *)
(* paginated API client (src/api/client.ts) and the text functions they    *)
(* use.  Texts are sequences of one-character strings.                     *)
(***************************************************************************)
EXTENDS Integers, Sequences, FiniteSets, TLC

\* ------------------------------------------------------------------ bounds
MaxSyncs == 2
MaxPages == 2
MaxNow == 2
MaxRestarts == 1
MaxLen == 3
MaxCache == 2
MaxTimers == 3
MaxPending == 2

\* ------------------------------------------------------------ text helpers
NL == "\n"
WhiteSpace == {" ", NL, "\t", "\r"}

SetMin(S) == CHOOSE x \in S : \A y \in S : x <= y
SetMax(S) == CHOOSE x \in S : \A y \in S : x >= y

\* a text that String.prototype.trim() reduces to ''
IsBlank(s) == \A i \in 1..Len(s) : s[i] \in WhiteSpace

\* String.prototype.trim
Trim(s) ==
  LET keep == {i \in 1..Len(s) : s[i] \notin WhiteSpace}
  IN IF keep = {} THEN <<>> ELSE SubSeq(s, SetMin(keep), SetMax(keep))

\* String.prototype.includes
Includes(hay, needle) ==
  \E i \in 0..(Len(hay) - Len(needle)) : SubSeq(hay, i + 1, i + Len(needle)) = needle

\* String.prototype.startsWith
StartsWith(s, p) == Len(p) <= Len(s) /\ SubSeq(s, 1, Len(p)) = p

\* String.prototype.split('\n'): the sequence of lines
RECURSIVE SplitLines(_)
SplitLines(s) ==
  LET nls == {i \in 1..Len(s) : s[i] = NL}
  IN IF nls = {} THEN <<s>>
     ELSE LET k == SetMin(nls)
          IN <<SubSeq(s, 1, k - 1)>> \o SplitLines(SubSeq(s, k + 1, Len(s)))

\* Array.prototype.join('\n')
RECURSIVE JoinLines(_)
JoinLines(ls) ==
  IF Len(ls) = 0 THEN <<>>
  ELSE IF Len(ls) = 1 THEN ls[1]
  ELSE ls[1] \o <<NL>> \o JoinLines(Tail(ls))

\* String.prototype.replace(/p/g, r) for a literal pattern p
RECURSIVE ReplaceAll(_, _, _)
ReplaceAll(s, p, r) ==
  IF Len(s) < Len(p) \/ Len(s) = 0 THEN s
  ELSE IF StartsWith(s, p) THEN r \o ReplaceAll(SubSeq(s, Len(p) + 1, Len(s)), p, r)
  ELSE <<s[1]>> \o ReplaceAll(Tail(s), p, r)

\* concatenation of a sequence of texts
RECURSIVE Concat(_)
Concat(ss) == IF Len(ss) = 0 THEN <<>> ELSE ss[1] \o Concat(Tail(ss))

\* Array.prototype.filter
RECURSIVE SelectIdx(_, _, _)
SelectIdx(s, keep, i) ==
  IF i > Len(s) THEN <<>>
  ELSE (IF i \in keep THEN <<s[i]>> ELSE <<>>) \o SelectIdx(s, keep, i + 1)

\* ------------------------------------------------- entity decoder (client)
Digits == {"0", "1", "2", "3", "4", "5", "6", "7", "8", "9"}
HexDigits == Digits \cup {"a", "b", "c", "d", "e", "f", "A", "B", "C", "D", "E", "F"}

DigitVal(c) ==
  CASE c = "0" -> 0 [] c = "1" -> 1 [] c = "2" -> 2 [] c = "3" -> 3 [] c = "4" -> 4
    [] c = "5" -> 5 [] c = "6" -> 6 [] c = "7" -> 7 [] c = "8" -> 8 [] c = "9" -> 9
    [] c \in {"a", "A"} -> 10 [] c \in {"b", "B"} -> 11 [] c \in {"c", "C"} -> 12
    [] c \in {"d", "D"} -> 13 [] c \in {"e", "E"} -> 14 [] c \in {"f", "F"} -> 15

\* parseInt(digits, base)
RECURSIVE ParseInt(_, _)
ParseInt(ds, base) ==
  IF Len(ds) = 0 THEN 0
  ELSE ParseInt(SubSeq(ds, 1, Len(ds) - 1), base) * base + DigitVal(ds[Len(ds)])

\* String.fromCharCode on the code points the model's alphabet names; every
\* other code point is the one character "U+"
FromCharCode(n) ==
  CASE n = 10 -> NL [] n = 32 -> " " [] n = 34 -> "\"" [] n = 38 -> "&" [] n = 39 -> "'"
    [] n = 59 -> ";" [] n = 60 -> "<" [] n = 62 -> ">" [] n = 92 -> "\\" [] n = 95 -> "_"
    [] n = 97 -> "a" [] n = 98 -> "b" [] OTHER -> "U+"

\* length of the longest run of characters of cs at the head of s
RECURSIVE RunLen(_, _)
RunLen(s, cs) == IF Len(s) = 0 \/ s[1] \notin cs THEN 0 ELSE 1 + RunLen(Tail(s), cs)

\* replace(/<prefix>(<cs>+);/g, m => fromCharCode(parseInt(m, base)))
RECURSIVE ReplaceNumeric(_, _, _, _)
ReplaceNumeric(s, prefix, cs, base) ==
  IF Len(s) = 0 THEN s
  ELSE LET rest == SubSeq(s, Len(prefix) + 1, Len(s))
           n == RunLen(rest, cs)
       IN IF StartsWith(s, prefix) /\ n > 0 /\ Len(rest) > n /\ rest[n + 1] = ";"
          THEN <<FromCharCode(ParseInt(SubSeq(rest, 1, n), base))>>
               \o ReplaceNumeric(SubSeq(rest, n + 2, Len(rest)), prefix, cs, base)
          ELSE <<s[1]>> \o ReplaceNumeric(Tail(s), prefix, cs, base)

\* the table of named entities, in the order the code applies them
Entities == <<
  <<<<"&", "a", "m", "p", ";">>, <<"&">>>>, <<<<"&", "l", "t", ";">>, <<"<">>>>, <<<<"&", "g", "t", ";">>, <<">">>>>, <<<<"&", "q", "u", "o", "t", ";">>, <<"\"">>>>,
  <<<<"&", "#", "3", "9", ";">>, <<"'">>>>, <<<<"&", "a", "p", "o", "s", ";">>, <<"'">>>>, <<<<"&", "n", "b", "s", "p", ";">>, <<" ">>>>,
  <<<<"&", "n", "d", "a", "s", "h", ";">>, <<"ndash">>>>, <<<<"&", "m", "d", "a", "s", "h", ";">>, <<"mdash">>>>, <<<<"&", "h", "e", "l", "l", "i", "p", ";">>, <<"hellip">>>>,
  <<<<"&", "l", "s", "q", "u", "o", ";">>, <<"lsquo">>>>, <<<<"&", "r", "s", "q", "u", "o", ";">>, <<"rsquo">>>>, <<<<"&", "l", "d", "q", "u", "o", ";">>, <<"ldquo">>>>,
  <<<<"&", "r", "d", "q", "u", "o", ";">>, <<"rdquo">>>> >>

RECURSIVE ReplaceEntities(_, _)
ReplaceEntities(s, i) ==
  IF i > Len(Entities) THEN s
  ELSE ReplaceEntities(ReplaceAll(s, Entities[i][1], Entities[i][2]), i + 1)

\* the five backslash sequences, in the order the code applies them
JsonEscapes(s) ==
  LET s1 == ReplaceAll(s, <<"\\", "n">>, <<NL>>)
      s2 == ReplaceAll(s1, <<"\\", "t">>, <<"\t">>)
      s3 == ReplaceAll(s2, <<"\\", "r">>, <<"\r">>)
      s4 == ReplaceAll(s3, <<"\\", "\"">>, <<"\"">>)
  IN ReplaceAll(s4, <<"\\", "\\">>, <<"\\">>)

DecodeHtmlEntities(text) ==
  IF text = <<>> THEN text
  ELSE LET named == ReplaceEntities(JsonEscapes(text), 1)
           dec == ReplaceNumeric(named, <<"&", "#">>, Digits, 10)
       IN ReplaceNumeric(dec, <<"&", "#", "x">>, HexDigits, 16)

\* ------------------------------------------------------------ deduplication
\* a || b on texts: the empty text is falsy
Or(a, b) == IF a # <<>> THEN a ELSE b

DedupKeyById(h) == <<h.id>>

\* `${h.content || ''}_${h.created_at || h.date || ''}`
DedupKey(h) == h.content \o <<"_">> \o Or(h.created_at, h.date)

\* a seen-set that forgets a key when it is hit
DedupeToggle(hs) ==
  LET keep == {i \in 1..Len(hs) :
                 Cardinality({j \in 1..(i - 1) : DedupKey(hs[j]) = DedupKey(hs[i])}) % 2 = 0}
  IN SelectIdx(hs, keep, 1)

\* the last highlight of a key wins
DedupeLastWins(hs) ==
  LET keep == {i \in 1..Len(hs) : \A j \in (i + 1)..Len(hs) : DedupKey(hs[j]) # DedupKey(hs[i])}
  IN SelectIdx(hs, keep, 1)

DeduplicateHighlights(hs) ==
  LET keep == {i \in 1..Len(hs) : \A j \in 1..(i - 1) : DedupKey(hs[j]) # DedupKey(hs[i])}
  IN SelectIdx(hs, keep, 1)

\* the batch put in front of the cache as it is
MergeCacheNoFilter(unique, cache) == unique \o cache

\* the cache merge of syncHighlights: [...newUniqueHighlights, ...this.highlights]
MergeCache(unique, cache) ==
  LET existingIds == {DedupKey(cache[j]) : j \in 1..Len(cache)}
      keep == {i \in 1..Len(unique) : DedupKey(unique[i]) \notin existingIds}
  IN SelectIdx(unique, keep, 1) \o cache

\* ----------------------------------------------------------------- grouping
VALID_SOURCE_TYPES == <<"book", "tweet", "self", "article", "youtube">>

UnknownSource == <<"U", "n", "k", "n", "o", "w", "n", " ", "S", "o", "u", "r", "c", "e">>

\* the type as the service sent it
SourceTypeOfRaw(h) == IF h.sourceType # "" THEN h.sourceType ELSE "self"

SourceTypeOf(h) ==
  LET t == IF h.sourceType # "" THEN h.sourceType ELSE "self"
  IN IF \E i \in 1..Len(VALID_SOURCE_TYPES) : VALID_SOURCE_TYPES[i] = t THEN t ELSE "self"

SourceOf(h) == Or(h.source, UnknownSource)

\* the keys of the object a reduce builds, in insertion order
KeysInOrder(keys) ==
  LET keep == {i \in 1..Len(keys) : \A j \in 1..(i - 1) : keys[j] # keys[i]}
  IN SelectIdx(keys, keep, 1)

\* groups[k]: the highlights whose key is k, in order
MembersOf(hs, keys, k) ==
  SelectIdx(hs, {i \in 1..Len(hs) : keys[i] = k}, 1)

\* Object.entries(groupHighlightsBySourceType(hs))
GroupHighlightsBySourceType(hs) ==
  LET keys == [i \in 1..Len(hs) |-> SourceTypeOf(hs[i])]
      ks == KeysInOrder(keys)
  IN [i \in 1..Len(ks) |-> [key |-> ks[i], members |-> MembersOf(hs, keys, ks[i])]]

\* Object.entries(groupHighlightsBySource(hs))
GroupHighlightsBySource(hs) ==
  LET keys == [i \in 1..Len(hs) |-> SourceOf(hs[i])]
      ks == KeysInOrder(keys)
  IN [i \in 1..Len(ks) |-> [key |-> ks[i], members |-> MembersOf(hs, keys, ks[i])]]

GetSourceTypeDisplayName(t) ==
  CASE t = "article" -> <<"A", "r", "t", "i", "c", "l", "e", "s">>
    [] t = "book" -> <<"B", "o", "o", "k", "s">>
    [] t = "self" -> <<"P", "e", "r", "s", "o", "n", "a", "l", " ", "N", "o", "t", "e", "s">>
    [] t = "tweet" -> <<"T", "w", "e", "e", "t", "s">>
    [] t = "youtube" -> <<"Y", "o", "u", "T", "u", "b", "e">>
    [] OTHER -> <<t>>

ForbiddenChars == {"<", ">", ":", "\"", "|", "?", "*"}

RECURSIVE StripTrailingDots(_)
StripTrailingDots(s) ==
  IF Len(s) > 0 /\ s[Len(s)] = "." THEN StripTrailingDots(SubSeq(s, 1, Len(s) - 1)) ELSE s

SanitizeFileName(name) ==
  LET kept == SelectSeq(name, LAMBDA c : c \notin ForbiddenChars)
      dashed == [i \in 1..Len(kept) |-> IF kept[i] \in {"/", "\\"} THEN "-" ELSE kept[i]]
  IN Trim(StripTrailingDots(dashed))

DefaultFolder == <<"S", "c", "r", "e", "v", "i", " ", "H", "i", "g", "h", "l", "i", "g", "h", "t", "s">>

\* `${defaultFolder}/${sanitizeFileName(displayName)}`
TypeFolderPath(t) == DefaultFolder \o <<"/">> \o SanitizeFileName(GetSourceTypeDisplayName(t))

\* `${baseFolder}/${sanitizeFileName(source)}.md`
FilePath(t, source) == TypeFolderPath(t) \o <<"/">> \o SanitizeFileName(source) \o <<".", "m", "d">>

\* the (type, source) groups of a batch in the order processHighlights and
\* createBookFiles visit them
RECURSIVE GroupsFrom(_, _)
GroupsFrom(byType, i) ==
  IF i > Len(byType) THEN <<>>
  ELSE LET bySource == GroupHighlightsBySource(byType[i].members)
       IN [j \in 1..Len(bySource) |->
             [type |-> byType[i].key, source |-> bySource[j].key,
              members |-> bySource[j].members]]
          \o GroupsFrom(byType, i + 1)

SourceGroups(hs) == GroupsFrom(GroupHighlightsBySourceType(hs), 1)

\* ---------------------------------------------------------------- rendering
FormatAsBlockquote(text) ==
  IF text = <<>> \/ IsBlank(text) THEN text
  ELSE LET ls == SplitLines(Trim(text))
       IN JoinLines([i \in 1..Len(ls) |->
                       IF IsBlank(ls[i]) THEN <<">">> ELSE <<">", " ">> \o ls[i]])

\* the block createBookFiles appends for one highlight
HighlightBlock(content) == <<NL>> \o FormatAsBlockquote(content) \o <<NL, NL, "-", "-", "-", NL>>

\* nunjucks autoescape of an interpolated value
EscapeChar(c) ==
  CASE c = "&" -> <<"&", "a", "m", "p", ";">> [] c = "\"" -> <<"&", "q", "u", "o", "t", ";">> [] c = "'" -> <<"&", "#", "3", "9", ";">>
    [] c = "<" -> <<"&", "l", "t", ";">> [] c = ">" -> <<"&", "g", "t", ";">> [] OTHER -> <<c>>

AutoEscape(s) == Concat([i \in 1..Len(s) |-> EscapeChar(s[i])])

\* templates/book-template.md rendered for a group without author, url,
\* notes, chapters, pages or tags
BookTemplateHead == <<"*", "*", "A", "u", "t", "h", "o", "r", ":", "*", "*", " ", NL, NL, NL, "#", "#", " ", "H", "i", "g", "h", "l", "i", "g", "h", "t", "s", NL, NL>>

RenderBookTemplate(members) ==
  BookTemplateHead
  \o Concat([i \in 1..Len(members) |->
               <<NL, ">", " ">> \o AutoEscape(members[i].content) \o <<NL, NL, "-", "-", "-", NL>>])

\* ----------------------------------------------------------- auto-linking
\* a context value: a string, or anything else (a number, say)
Str(t) == [isString |-> TRUE, text |-> t]

\* `[[${value}]]` whenever the string is not blank
AutoLinkValueAlways(v) ==
  IF v.isString /\ v.text # <<>> /\ ~IsBlank(v.text)
  THEN Str(<<"[", "[">> \o v.text \o <<"]", "]">>)
  ELSE v

\* the test and the rewrite of one auto-link field
AutoLinkValue(v) ==
  IF /\ v.isString /\ v.text # <<>> /\ ~IsBlank(v.text)
     /\ ~StartsWith(v.text, <<"[", "[">>)
     /\ ~StartsWith(v.text, <<"<", "m", "a", "r", "k">>)
  THEN Str(<<"[", "[">> \o v.text \o <<"]", "]">>)
  ELSE v

\* for (const field of this.settings.autoLinkFields), from field i on
RECURSIVE AutoLinkFrom(_, _, _)
AutoLinkFrom(data, fields, i) ==
  IF i > Len(fields) THEN data
  ELSE IF fields[i] \in DOMAIN data
       THEN AutoLinkFrom([data EXCEPT ![fields[i]] = AutoLinkValue(@)], fields, i + 1)
       ELSE AutoLinkFrom(data, fields, i + 1)

\* contextData of renderTemplate as renderString gets it
ContextData(enableAutoLinking, autoLinkFields, data) ==
  IF enableAutoLinking THEN AutoLinkFrom(data, autoLinkFields, 1) ELSE data

\* renderString('{{author}} {{title}}', contextData)
RenderFields(context) ==
  AutoEscape(context["author"].text) \o <<" ">> \o AutoEscape(context["title"].text)

\* renderString throws on a template that does not compile or names a filter
\* the environment does not have
NunjucksThrows(template) == template = "broken"

\* error.message of that throw
ErrorMessage == <<"f", "i", "l", "t", "e", "r", " ", "n", "o", "t", " ", "f", "o", "u", "n", "d">>

\* `Template Error: ${errorMessage}`
TemplateError(message) ==
  <<"T", "e", "m", "p", "l", "a", "t", "e", " ", "E", "r", "r", "o", "r", ":", " ">> \o message

\* renderString(template, contextData) when it returns
RenderString(template, members) ==
  IF template = "" THEN <<>> ELSE RenderBookTemplate(members)

\* renderTemplate without its catch block
RenderTemplateUncaught(template, members) ==
  [threw |-> NunjucksThrows(template), text |-> RenderString(template, members)]

\* renderTemplate: what it returns and whether an error leaves it
RenderTemplate(template, members) ==
  IF NunjucksThrows(template)
  THEN [threw |-> FALSE, text |-> TemplateError(ErrorMessage)]
  ELSE [threw |-> FALSE, text |-> RenderString(template, members)]

\* loadBookTemplate: '' when the file is missing
LoadBookTemplate(onDisk, text) == IF onDisk THEN text ELSE ""

\* renderTemplate(await loadBookTemplate(), templateData)
RenderForCreate(onDisk, text, members) == RenderTemplate(LoadBookTemplate(onDisk, text), members)

\* ---------------------------------------------- text functions of the plugin
\* a decoder that takes every backslash for an escape and drops it
PluginDecodeDropsBackslash(text) ==
  IF text = <<>> THEN text
  ELSE LET named == ReplaceEntities(ReplaceAll(JsonEscapes(text), <<"\\">>, <<>>), 1)
           dec == ReplaceNumeric(named, <<"&", "#">>, Digits, 10)
       IN ReplaceNumeric(dec, <<"&", "#", "x">>, HexDigits, 16)

\* decodeHtmlEntities of main.ts: the same steps as the client's, the table
\* applied without the includes() test
PluginDecodeHtmlEntities(text) ==
  IF text = <<>> THEN text
  ELSE LET named == ReplaceEntities(JsonEscapes(text), 1)
           dec == ReplaceNumeric(named, <<"&", "#">>, Digits, 10)
       IN ReplaceNumeric(dec, <<"&", "#", "x">>, HexDigits, 16)

\* lines.map(line => line.trim() ? `> ${line}` : '>').join('\n')
QuoteLines(ls) ==
  JoinLines([i \in 1..Len(ls) |-> IF IsBlank(ls[i]) THEN <<">">> ELSE <<">", " ">> \o ls[i]])

\* the blockquote filter without the trim() before split
BlockquoteFilterUntrimmed(str) ==
  IF str = <<>> \/ IsBlank(str) THEN str
  ELSE QuoteLines(SplitLines(PluginDecodeHtmlEntities(str)))

\* the blockquote filter of setupNunjucks
BlockquoteFilter(str) ==
  IF str = <<>> \/ IsBlank(str) THEN str
  ELSE QuoteLines(SplitLines(Trim(PluginDecodeHtmlEntities(str))))

LowerCase == <<"a", "b", "c", "d", "e", "f", "g", "h", "i", "j", "k", "l", "m", "n", "o", "p", "q", "r", "s", "t", "u", "v", "w", "x", "y", "z">>
UpperCase == <<"A", "B", "C", "D", "E", "F", "G", "H", "I", "J", "K", "L", "M", "N", "O", "P", "Q", "R", "S", "T", "U", "V", "W", "X", "Y", "Z">>

Range(f) == {f[i] : i \in DOMAIN f}

\* the class \w
WordChars == Range(LowerCase) \cup Range(UpperCase) \cup Digits \cup {"_"}

\* String.prototype.toLowerCase
ToLowerChar(c) ==
  IF c \in Range(UpperCase) THEN LowerCase[CHOOSE i \in DOMAIN UpperCase : UpperCase[i] = c] ELSE c

ToLowerCase(s) == [i \in 1..Len(s) |-> ToLowerChar(s[i])]

\* replace(/[cs]+/g, r): every maximal run of characters of cs becomes r
RECURSIVE ReplaceRuns(_, _, _)
ReplaceRuns(s, cs, r) ==
  IF Len(s) = 0 THEN s
  ELSE LET n == RunLen(s, cs)
       IN IF n > 0 THEN r \o ReplaceRuns(SubSeq(s, n + 1, Len(s)), cs, r)
          ELSE <<s[1]>> \o ReplaceRuns(Tail(s), cs, r)

\* replace(/^\/|\/$/g, '')
StripSlashes(s) ==
  LET a == IF Len(s) > 0 /\ s[1] = "/" THEN Tail(s) ELSE s
  IN IF Len(a) > 0 /\ a[Len(a)] = "/" THEN SubSeq(a, 1, Len(a) - 1) ELSE a

\* sanitizeTagName without the step that collapses runs of slashes
SanitizeTagNameNoCollapse(tagName) ==
  LET hyphened == ReplaceRuns(tagName, WhiteSpace, <<"-">>)
      kept == SelectIdx(hyphened, {i \in 1..Len(hyphened) : hyphened[i] \in WordChars \cup {"-", "/"}}, 1)
  IN ToLowerCase(StripSlashes(kept))

SanitizeTagName(tagName) ==
  LET hyphened == ReplaceRuns(tagName, WhiteSpace, <<"-">>)
      kept == SelectIdx(hyphened, {i \in 1..Len(hyphened) : hyphened[i] \in WordChars \cup {"-", "/"}}, 1)
      collapsed == ReplaceRuns(kept, {"/"}, <<"/">>)
  IN ToLowerCase(StripSlashes(collapsed))

\* ------------------------------------------------------------- the API client
\* flatten the sources of all pages into mapped highlights
FlattenSource(src) ==
  [i \in 1..Len(src.highlights) |->
     LET h == src.highlights[i]
         ts == Or(h.created_at, src.created_at)
     IN [id |-> h.id,
         content |-> DecodeHtmlEntities(h.content),
         source |-> src.name,
         sourceType |-> src.type,
         title |-> DecodeHtmlEntities(src.name),
         date |-> ts,
         created_at |-> ts]]

Flatten(allSources) == Concat([i \in 1..Len(allSources) |-> FlattenSource(allSources[i])])

\* ------------------------------------------------------ the upstream service
\* Source records the service can put on a page
SrcBook ==
  [name |-> <<"S">>, type |-> "book", created_at |-> <<>>,
   highlights |-> << [id |-> "h1", content |-> <<"a", NL, "b">>, created_at |-> <<"1">>],
                     [id |-> "h2", content |-> <<"&", "l", "t", ";">>, created_at |-> <<"1">>] >>]

SrcNote ==
  [name |-> <<"T">>, type |-> "BOOK", created_at |-> <<"2">>,
   highlights |-> << [id |-> "h3", content |-> <<"a">>, created_at |-> <<>>] >>]

Payloads == {<<>>, <<SrcBook>>, <<SrcNote>>}

NoResponse == [kind |-> "none", data |-> <<>>, hasMore |-> FALSE]

\* what requestUrl can deliver for a page: a bare array, an envelope with a
\* pagination block, an envelope without one, or a failure (transport error
\* or non-2xx status)
Responses(page) ==
  {[kind |-> "array", data |-> d, hasMore |-> FALSE] : d \in Payloads}
  \cup {[kind |-> "envelope", data |-> d, hasMore |-> m] :
          d \in Payloads, m \in {b \in BOOLEAN : b => page < MaxPages}}
  \cup {[kind |-> "bare_envelope", data |-> d, hasMore |-> FALSE] : d \in Payloads}
  \cup {[kind |-> "error", data |-> <<>>, hasMore |-> FALSE]}

ResponseDataOfEnvelope(r) == IF r.kind = "array" THEN <<>> ELSE r.data

\* responseData of fetchHighlightsSince
ResponseData(r) == r.data

\* !Array.isArray(response) && response.pagination?.hasMore || false
HasMore(r) == r.kind = "envelope" /\ r.hasMore

ApiKeys == {"", "k1"}

\* ------------------------------------------------------------------- state
VARIABLES
  settings,       \* this.settings (with the keys loadData() brought along)
  persisted,      \* the plugin's data.json
  highlights,     \* this.highlights, the in-memory cache
  clientKey,      \* apiClient.apiKey
  isSyncing,      \* this.isSyncing
  syncInterval,   \* this.syncInterval, 0 for null
  liveTimers,     \* the interval timers the host still fires
  vault,          \* path -> content of the files in the vault
  folders,        \* the folders in the vault
  templateOnDisk, \* whether templates/book-template.md is in the plugin directory
  bookTemplate,   \* what that file holds: "book" as shipped, "broken" when it does not compile
  loaded,         \* onload has run and onunload has not
  pending,        \* settings-tab handlers waiting for saveSettings before setupAutoSync
  now,            \* Date.now()
  notice,         \* the last Notice shown
  call,           \* the invocations of syncHighlights and their locals
  net,            \* the response requestUrl delivered last
  written,        \* <<path, content>> of the highlights written to files
  syncs,          \* syncs started
  restarts,       \* sessions started after the first
  arg,            \* the argument a pure function is applied to
  result,         \* what it returned
  op              \* the function applied, "none" before

vars == <<settings, persisted, highlights, clientKey, isSyncing, syncInterval,
          liveTimers, vault, folders, templateOnDisk, bookTemplate, loaded, pending,
          now, notice, call, net, written, syncs, restarts, arg, result, op>>

pluginVars == <<settings, persisted, highlights, clientKey, isSyncing, syncInterval,
                liveTimers, vault, folders, templateOnDisk, bookTemplate, loaded,
                pending, now, notice, call, net, written, syncs, restarts>>

hostVars == <<bookTemplate, loaded, pending>>

pureVars == <<arg, result, op>>

NoArg == [batch |-> <<>>, cache |-> <<>>]

Calls == {1, 2}

DEFAULT_SETTINGS ==
  [apiKey |-> "", syncInterval |-> 2, autoSync |-> TRUE, lastSyncTime |-> 0,
   highlights |-> <<>>]

NoSnapshot == [vault |-> <<>>, highlights |-> <<>>, settings |-> DEFAULT_SETTINGS,
               persisted |-> DEFAULT_SETTINGS, now |-> 0]

IdleCall ==
  [pc |-> "idle", fullSync |-> FALSE, start_from |-> 0, currentPage |-> 0,
   received |-> 0, allSources |-> <<>>, fetched |-> <<>>, unique |-> <<>>,
   group |-> 0, keys |-> <<>>, snap |-> NoSnapshot]

InProgress == {"fetch", "process", "merge", "saveCache", "saveSettings", "finish"}

Snapshot == [vault |-> vault, highlights |-> highlights, settings |-> settings,
             persisted |-> persisted, now |-> now]

\* setupAutoSync: the timers left live and the new value of this.syncInterval
SetupAutoSync(handle, live, s) ==
  LET cleared == IF handle # 0 THEN live \ {handle} ELSE live
      fresh == 1 + SetMax(live \cup {handle, 0})
  IN IF s.autoSync /\ s.syncInterval > 0
     THEN [handle |-> fresh, live |-> cleared \cup {fresh}]
     ELSE [handle |-> handle, live |-> cleared]

PluginInitFrom(s) ==
  /\ settings = s
  /\ persisted = s
  /\ highlights = s.highlights
  /\ clientKey = s.apiKey
  /\ isSyncing = FALSE
  /\ syncInterval = SetupAutoSync(0, {}, s).handle
  /\ liveTimers = SetupAutoSync(0, {}, s).live
  /\ vault = <<>>
  /\ folders = {}
  /\ templateOnDisk \in BOOLEAN
  /\ bookTemplate \in (IF templateOnDisk THEN {"book", "broken"} ELSE {"book"})
  /\ loaded = TRUE
  /\ pending = 0
  /\ now = 1
  /\ notice = "none"
  /\ call = [c \in Calls |-> IdleCall]
  /\ net = NoResponse
  /\ written = {}
  /\ syncs = 0
  /\ restarts = 0

\* a fresh install after onload
PluginInit == PluginInitFrom(DEFAULT_SETTINGS)

Init ==
  /\ PluginInit
  /\ arg = NoArg
  /\ result = <<>>
  /\ op = "none"

\* -------------------------------------------------------------- syncHighlights
\* the two guards at the head of syncHighlights
HasApiKeyIgnored == TRUE

HasApiKey == settings.apiKey # ""

NotSyncingIgnored == TRUE

NotSyncing == ~isSyncing

\* the catch block without the finally block, for any failure
SyncFailedLeavesFlag(c) ==
  /\ call' = [call EXCEPT ![c] = IdleCall]
  /\ isSyncing' = isSyncing
  /\ notice' = "failed"

\* the catch and finally blocks
SyncFailed(c) ==
  /\ call' = [call EXCEPT ![c] = IdleCall]
  /\ isSyncing' = FALSE
  /\ notice' = "failed"

SyncNoKey ==
  /\ ~HasApiKey
  /\ notice' = "nokey"
  /\ UNCHANGED <<settings, persisted, highlights, clientKey, isSyncing, syncInterval,
                 liveTimers, vault, folders, templateOnDisk, now, call, net, written,
                 syncs, restarts>>
  /\ UNCHANGED pureVars
  /\ UNCHANGED hostVars

SyncRejectedClearsFlag ==
  /\ HasApiKey
  /\ ~NotSyncing
  /\ notice' = "already"
  /\ isSyncing' = FALSE
  /\ UNCHANGED <<settings, persisted, highlights, clientKey, syncInterval,
                 liveTimers, vault, folders, templateOnDisk, now, call, net, written,
                 syncs, restarts>>
  /\ UNCHANGED pureVars
  /\ UNCHANGED hostVars

SyncRejected ==
  /\ HasApiKey
  /\ ~NotSyncing
  /\ notice' = "already"
  /\ UNCHANGED <<settings, persisted, highlights, clientKey, isSyncing, syncInterval,
                 liveTimers, vault, folders, templateOnDisk, now, call, net, written,
                 syncs, restarts>>
  /\ UNCHANGED pureVars
  /\ UNCHANGED hostVars

\* a client that sends no start_from at all
StartFromEpoch(fullSync) == 0

\* fullSync ? undefined : this.settings.lastSyncTime, 0 for undefined
StartFrom(fullSync) == IF fullSync THEN 0 ELSE settings.lastSyncTime

\* a client that keeps for the whole fetch the key of its first request
RequestKeyOfFetch(c) == IF call[c].keys # <<>> THEN call[c].keys[1] ELSE clientKey

\* the X-API-Key header makeRequest builds for a request of call c
RequestKey(c) == clientKey

\* lines 193-197 up to the first request of fetchHighlightsSince
SyncStart(fullSync) ==
  /\ HasApiKey
  /\ NotSyncing
  /\ syncs < MaxSyncs
  /\ \E c \in Calls :
       /\ call[c].pc = "idle"
       /\ \A d \in Calls : d < c => call[d].pc # "idle"
       /\ call' = [call EXCEPT ![c] =
                     [IdleCall EXCEPT !.pc = "fetch",
                                      !.fullSync = fullSync,
                                      !.start_from = StartFrom(fullSync),
                                      !.currentPage = 1,
                                      !.keys = <<RequestKey(c)>>,
                                      !.snap = Snapshot]]
  /\ isSyncing' = TRUE
  /\ syncs' = syncs + 1
  /\ UNCHANGED <<settings, persisted, highlights, clientKey, syncInterval, liveTimers,
                 vault, folders, templateOnDisk, now, notice, net, written, restarts>>
  /\ UNCHANGED pureVars
  /\ UNCHANGED hostVars

SyncHighlights(fullSync) == SyncNoKey \/ SyncRejected \/ SyncStart(fullSync)

\* the command and the settings-tab button
ManualSync == SyncHighlights(FALSE)

\* the force-full-sync command and the settings-tab button
ForceFullSync == SyncHighlights(TRUE)

\* the setInterval callback
TimerTick == liveTimers # {} /\ SyncHighlights(FALSE)

\* ------------------------------------------------------ fetchHighlightsSince
\* the loop left: flatten, then lines 199-203 or 219-222 of syncHighlights;
\* the locals of fetchHighlightsSince and start_from are dead from here on
FetchDone(c, all) ==
  LET fetched == Flatten(all)
  IN IF Len(fetched) > 0
     THEN /\ call' = [call EXCEPT ![c] =
                        [IdleCall EXCEPT !.pc = "process",
                                         !.fetched = fetched,
                                         !.unique = DeduplicateHighlights(fetched),
                                         !.group = 1,
                                         !.snap = call[c].snap]]
          /\ UNCHANGED <<isSyncing, notice>>
     ELSE /\ call' = [call EXCEPT ![c] = IdleCall]
          /\ isSyncing' = FALSE
          /\ notice' = "nonew"

FetchFailedPartial(c) ==
  /\ FetchDone(c, call[c].allSources)
  /\ UNCHANGED <<settings, persisted, highlights, clientKey, vault, folders, written>>

\* makeRequest threw: nothing is returned, syncHighlights catches
FetchFailed(c) ==
  /\ SyncFailed(c)
  /\ UNCHANGED <<settings, persisted, highlights, clientKey, vault, folders, written>>

\* one response of makeRequest inside the while loop, drawn from rs
ReceiveFrom(c, rs) ==
  /\ call[c].pc = "fetch"
  /\ \E r \in rs :
       /\ net' = r
       /\ IF r.kind = "error"
          THEN FetchFailed(c)
          ELSE /\ LET all == call[c].allSources \o ResponseData(r)
                  IN IF HasMore(r)
                     THEN /\ call' = [call EXCEPT ![c].allSources = all,
                                                  ![c].received = @ + 1,
                                                  ![c].currentPage = @ + 1,
                                                  ![c].keys = Append(@, RequestKey(c))]
                          /\ UNCHANGED <<isSyncing, notice>>
                     ELSE FetchDone(c, all)
               /\ UNCHANGED <<settings, persisted, highlights, clientKey, vault, folders,
                              written>>
  /\ UNCHANGED <<syncInterval, liveTimers, templateOnDisk, now, syncs, restarts>>
  /\ UNCHANGED pureVars
  /\ UNCHANGED hostVars

\* a page of a sync: the service answers with envelopes
ReceivePage(c) ==
  ReceiveFrom(c, {r \in Responses(call[c].currentPage) : r.kind \in {"envelope", "error"}})

\* ------------------------------------------- processHighlights, createBookFiles
\* an append branch without the includes() test
AppendedAll(existingContent, members) == members

\* the highlights createBookFiles appends to an existing file
Appended(existingContent, members) ==
  LET keep == {i \in 1..Len(members) : ~Includes(existingContent, members[i].content)}
  IN SelectIdx(members, keep, 1)

AppendedContent(existingContent, members) ==
  LET add == Appended(existingContent, members)
  IN existingContent \o Concat([i \in 1..Len(add) |-> HighlightBlock(add[i].content)])

\* newContent !== existingContent: vault.modify is called
FileModified(existingContent, members) ==
  AppendedContent(existingContent, members) # existingContent

\* the folders and the file of one (type, source) group
ProcessGroup(c) ==
  /\ call[c].pc = "process"
  /\ LET groups == SourceGroups(call[c].unique)
         g == groups[call[c].group]
         path == FilePath(g.type, g.source)
         rendered == RenderForCreate(templateOnDisk, bookTemplate, g.members)
         hs == IF path \in DOMAIN vault
               THEN Appended(vault[path], g.members)
               ELSE IF templateOnDisk /\ ~NunjucksThrows(bookTemplate) THEN g.members ELSE <<>>
     IN /\ folders' = folders \cup {DefaultFolder, TypeFolderPath(g.type)}
        /\ IF path \notin DOMAIN vault /\ rendered.threw
           THEN \* the error leaves createBookFiles, syncHighlights catches
                /\ call' = [call EXCEPT ![c] = IdleCall]
                /\ isSyncing' = FALSE
                /\ notice' = "failed: template"
                /\ UNCHANGED <<vault, written>>
           ELSE /\ vault' = IF path \in DOMAIN vault
                             THEN IF FileModified(vault[path], g.members)
                                  THEN [vault EXCEPT ![path] = AppendedContent(vault[path], g.members)]
                                  ELSE vault
                             ELSE [q \in DOMAIN vault \cup {path} |->
                                     IF q = path THEN rendered.text ELSE vault[q]]
                /\ written' = written \cup {<<path, hs[i].content>> : i \in 1..Len(hs)}
                /\ call' = [call EXCEPT ![c].group = @ + 1,
                                        ![c].pc = IF call[c].group = Len(groups)
                                                  THEN "merge" ELSE "process"]
                /\ UNCHANGED <<isSyncing, notice>>
  /\ UNCHANGED <<settings, persisted, highlights, clientKey, syncInterval, liveTimers,
                 templateOnDisk, now, net, syncs, restarts>>
  /\ UNCHANGED pureVars
  /\ UNCHANGED hostVars

\* the catch block without the finally block
StorageFailedLeavesFlag(c) ==
  /\ call[c].pc = "process"
  /\ call' = [call EXCEPT ![c] = IdleCall]
  /\ notice' = "failed"
  /\ UNCHANGED <<settings, persisted, highlights, clientKey, isSyncing, syncInterval,
                 liveTimers, vault, folders, templateOnDisk, now, net, written, syncs,
                 restarts>>
  /\ UNCHANGED pureVars
  /\ UNCHANGED hostVars

\* a folder or file operation rejects
StorageFailed(c) ==
  /\ call[c].pc = "process"
  /\ SyncFailed(c)
  /\ UNCHANGED <<settings, persisted, highlights, clientKey, syncInterval, liveTimers,
                 vault, folders, templateOnDisk, now, net, written, syncs, restarts>>
  /\ UNCHANGED pureVars
  /\ UNCHANGED hostVars

\* --------------------------------------------------------------- the commit
\* lines 205-212: merge into this.highlights, saveCachedHighlights calls loadData
MergeIntoCache(c) ==
  /\ call[c].pc = "merge"
  /\ highlights' = MergeCache(call[c].unique, highlights)
  /\ call' = [call EXCEPT ![c].pc = "saveCache"]
  /\ UNCHANGED <<settings, persisted, clientKey, isSyncing, syncInterval, liveTimers,
                 vault, folders, templateOnDisk, now, notice, net, written, syncs,
                 restarts>>
  /\ UNCHANGED pureVars
  /\ UNCHANGED hostVars

\* saveCachedHighlights: data = loadData(); data.highlights = ...; saveData(data)
SaveCachedHighlights(c) ==
  /\ call[c].pc = "saveCache"
  /\ persisted' = [persisted EXCEPT !.highlights = highlights]
  /\ call' = [call EXCEPT ![c].pc = "saveSettings"]
  /\ UNCHANGED <<settings, highlights, clientKey, isSyncing, syncInterval, liveTimers,
                 vault, folders, templateOnDisk, now, notice, net, written, syncs,
                 restarts>>
  /\ UNCHANGED pureVars
  /\ UNCHANGED hostVars

NewCursorFromBatch(c) ==
  SetMax({ParseInt(Or(call[c].unique[i].created_at, call[c].unique[i].date), 10) :
            i \in 1..Len(call[c].unique)})

\* the value line 214 stores in lastSyncTime
NewCursor(c) == now

\* lines 214-215: the cursor, then saveSettings writes this.settings
SaveCursor(c) ==
  /\ call[c].pc = "saveSettings"
  /\ settings' = [settings EXCEPT !.lastSyncTime = NewCursor(c)]
  /\ persisted' = settings'
  /\ call' = [call EXCEPT ![c].pc = "finish"]
  /\ UNCHANGED <<highlights, clientKey, isSyncing, syncInterval, liveTimers, vault,
                 folders, templateOnDisk, now, notice, net, written, syncs, restarts>>
  /\ UNCHANGED pureVars
  /\ UNCHANGED hostVars

\* saveData resolved: updateCredentials, the notice, the finally block
SyncFinish(c) ==
  /\ call[c].pc = "finish"
  /\ clientKey' = settings.apiKey
  /\ notice' = "synced"
  /\ isSyncing' = FALSE
  /\ call' = [call EXCEPT ![c] = IdleCall]
  /\ UNCHANGED <<settings, persisted, highlights, syncInterval, liveTimers, vault,
                 folders, templateOnDisk, now, net, written, syncs, restarts>>
  /\ UNCHANGED pureVars
  /\ UNCHANGED hostVars

\* ------------------------------------------------------------- environment
\* the API key field of the settings tab: onChange, saveSettings
SetApiKey(k) ==
  /\ k # settings.apiKey
  /\ settings' = [settings EXCEPT !.apiKey = k]
  /\ persisted' = settings'
  /\ clientKey' = k
  /\ UNCHANGED <<highlights, isSyncing, syncInterval, liveTimers, vault, folders,
                 templateOnDisk, now, notice, call, net, written, syncs, restarts>>
  /\ UNCHANGED pureVars
  /\ UNCHANGED hostVars

\* the host is closed or crashes and the plugin is loaded again: onload
Restart ==
  /\ restarts < MaxRestarts
  /\ restarts' = restarts + 1
  /\ settings' = persisted
  /\ highlights' = persisted.highlights
  /\ clientKey' = persisted.apiKey
  /\ isSyncing' = FALSE
  /\ syncInterval' = SetupAutoSync(0, {}, persisted).handle
  /\ liveTimers' = SetupAutoSync(0, {}, persisted).live
  /\ call' = [c \in Calls |-> IdleCall]
  /\ notice' = "none"
  /\ loaded' = TRUE
  /\ pending' = 0
  /\ UNCHANGED <<persisted, vault, folders, templateOnDisk, bookTemplate, now, net, written,
                 syncs>>
  /\ UNCHANGED pureVars

\* the clock advances
Tick ==
  /\ now < MaxNow
  /\ now' = now + 1
  /\ UNCHANGED <<settings, persisted, highlights, clientKey, isSyncing, syncInterval,
                 liveTimers, vault, folders, templateOnDisk, notice, call, net, written,
                 syncs, restarts>>
  /\ UNCHANGED pureVars
  /\ UNCHANGED hostVars

Next ==
  \/ ManualSync
  \/ ForceFullSync
  \/ TimerTick
  \/ \E c \in Calls : ReceivePage(c)
  \/ \E c \in Calls : ProcessGroup(c)
  \/ \E c \in Calls : StorageFailed(c)
  \/ \E c \in Calls : MergeIntoCache(c)
  \/ \E c \in Calls : SaveCachedHighlights(c)
  \/ \E c \in Calls : SaveCursor(c)
  \/ \E c \in Calls : SyncFinish(c)
  \/ \E k \in ApiKeys : SetApiKey(k)
  \/ Restart
  \/ Tick

Spec == Init /\ [][Next]_vars

\* ------------------------------------------- the orchestrator under fairness
\* every continuation whose await has settled is run by the event loop: a
\* request fails or returns a page, a vault operation fails or returns, a
\* save returns.  The service ends the pagination: Responses has no page
\* after MaxPages with hasMore true.
RequestFails(c) ==
  ReceiveFrom(c, {r \in Responses(call[c].currentPage) : r.kind = "error"})

SyncProgress(c) ==
  /\ WF_vars(RequestFails(c) \/ ReceivePage(c))
  /\ WF_vars(StorageFailed(c) \/ ProcessGroup(c))
  /\ WF_vars(MergeIntoCache(c))
  /\ WF_vars(SaveCachedHighlights(c))
  /\ WF_vars(SaveCursor(c))
  /\ WF_vars(SyncFinish(c))

SpecLive == Init /\ [][Next]_vars /\ \A c \in Calls : SyncProgress(c)

\* ------------------------------------- syncs against a service that filters
DigitChar(n) == CHOOSE d \in Digits : DigitVal(d) = n

\* new Date(start_from).toISOString(): the time as the text the service parses
RECURSIVE ToISOString(_)
ToISOString(n) ==
  IF n < 10 THEN <<DigitChar(n)>> ELSE ToISOString(n \div 10) \o <<DigitChar(n % 10)>>

\* params.start_from of a request, <<>> when the parameter is not sent
StartFromParam(start_from) == IF start_from # 0 THEN ToISOString(start_from) ELSE <<>>

\* the service answers a request that carries start_from with highlights
\* created at or after that time only
HonoursStartFrom(r, param) ==
  param = <<>> \/
    \A i \in 1..Len(r.data) : \A j \in 1..Len(r.data[i].highlights) :
      ParseInt(Or(r.data[i].highlights[j].created_at, r.data[i].created_at), 10)
        >= ParseInt(param, 10)

ReceiveSince(c) ==
  ReceiveFrom(c, {r \in Responses(call[c].currentPage) :
                    /\ r.kind \in {"envelope", "error"}
                    /\ HonoursStartFrom(r, StartFromParam(call[c].start_from))})

InitCursor ==
  /\ PluginInitFrom([DEFAULT_SETTINGS EXCEPT !.apiKey = "k1"])
  /\ templateOnDisk
  /\ bookTemplate = "book"
  /\ arg = NoArg
  /\ result = <<>>
  /\ op = "none"

NextCursor ==
  \/ SyncStart(FALSE)
  \/ SyncStart(TRUE)
  \/ \E c \in Calls : ReceiveSince(c)
  \/ \E c \in Calls : ProcessGroup(c)
  \/ \E c \in Calls : MergeIntoCache(c)
  \/ \E c \in Calls : SaveCachedHighlights(c)
  \/ \E c \in Calls : SaveCursor(c)
  \/ \E c \in Calls : SyncFinish(c)
  \/ Tick

SpecCursor == InitCursor /\ [][NextCursor]_vars

\* ------------------------------------------------ the fetch loop on its own
\* a configured install; the service answers with every response shape
ReceiveAnyPage(c) == ReceiveFrom(c, Responses(call[c].currentPage))

InitFetch ==
  /\ \E t \in 0..1 :
       PluginInitFrom([DEFAULT_SETTINGS EXCEPT !.apiKey = "k1", !.lastSyncTime = t])
  /\ arg = NoArg
  /\ result = <<>>
  /\ op = "none"

NextFetch ==
  \/ SyncStart(FALSE)
  \/ SyncStart(TRUE)
  \/ \E c \in Calls : ReceiveAnyPage(c)

SpecFetch == InitFetch /\ [][NextFetch]_vars

\* ------------------------------------------- deduplication as pure functions
U1 == [id |-> "x", content |-> <<"a">>, created_at |-> <<"1">>, date |-> <<"1">>]
U2 == [id |-> "y", content |-> <<"a">>, created_at |-> <<>>, date |-> <<"1">>]
U3 == [id |-> "x", content |-> <<"a">>, created_at |-> <<"2">>, date |-> <<"1">>]
U4 == [id |-> "", content |-> <<"a", "_">>, created_at |-> <<>>, date |-> <<>>]
U5 == [id |-> "z", content |-> <<>>, created_at |-> <<"1">>, date |-> <<>>]
U6 == [id |-> "", content |-> <<"a">>, created_at |-> <<>>, date |-> <<>>]

DedupUniverse == {U1, U2, U3, U4, U5, U6}

SeqsUpTo(S, n) == UNION {[1..k -> S] : k \in 0..n}

\* caches as a sequence of merges leaves them: no key twice
CleanCaches ==
  {c \in SeqsUpTo(DedupUniverse, MaxCache) :
     \A i, j \in 1..Len(c) : i # j => DedupKey(c[i]) # DedupKey(c[j])}

InitDedup ==
  /\ PluginInit
  /\ templateOnDisk
  /\ bookTemplate = "book"
  /\ arg \in {[batch |-> b, cache |-> c] : b \in SeqsUpTo(DedupUniverse, MaxLen), c \in CleanCaches}
  /\ result = <<>>
  /\ op = "none"

\* line 201
ApplyDedupe ==
  /\ op = "none"
  /\ op' = "dedupe"
  /\ result' = DeduplicateHighlights(arg.batch)
  /\ UNCHANGED arg
  /\ UNCHANGED pluginVars

\* lines 201-211
ApplyMerge ==
  /\ op = "none"
  /\ op' = "merge"
  /\ result' = MergeCache(DeduplicateHighlights(arg.batch), arg.cache)
  /\ UNCHANGED arg
  /\ UNCHANGED pluginVars

\* deduplicateHighlights applied to its own result
ApplyDedupeTwice ==
  /\ op = "none"
  /\ op' = "dedupe2"
  /\ result' = DeduplicateHighlights(DeduplicateHighlights(arg.batch))
  /\ UNCHANGED arg
  /\ UNCHANGED pluginVars

NextDedup ==
  \/ ApplyDedupe
  \/ ApplyDedupeTwice
  \/ ApplyMerge

SpecDedup == InitDedup /\ [][NextDedup]_vars

\* ------------------------------------------------ grouping as pure functions
G1 == [id |-> "g1", content |-> <<"a">>, source |-> <<"S">>, sourceType |-> "book"]
G2 == [id |-> "g2", content |-> <<"b">>, source |-> <<"S", ":">>, sourceType |-> "book"]
G3 == [id |-> "g3", content |-> <<"a">>, source |-> <<>>, sourceType |-> "BOOK"]
G4 == [id |-> "g4", content |-> <<"b">>, source |-> <<"S">>, sourceType |-> ""]
G5 == [id |-> "g5", content |-> <<"a">>, source |-> <<"S">>, sourceType |-> "tweet"]
G6 == [id |-> "g6", content |-> <<"b">>, source |-> UnknownSource, sourceType |-> "self"]

GroupUniverse == {G1, G2, G3, G4, G5, G6}

InitGroup ==
  /\ PluginInit
  /\ templateOnDisk
  /\ bookTemplate = "book"
  /\ arg \in {[batch |-> b, cache |-> <<>>] : b \in SeqsUpTo(GroupUniverse, MaxLen)}
  /\ result = <<>>
  /\ op = "none"

\* processHighlights line 241
ApplyGroupByType ==
  /\ op = "none"
  /\ op' = "byType"
  /\ result' = GroupHighlightsBySourceType(arg.batch)
  /\ UNCHANGED arg
  /\ UNCHANGED pluginVars

\* the groups processHighlights and createBookFiles visit
ApplyGroups ==
  /\ op = "none"
  /\ op' = "groups"
  /\ result' = SourceGroups(arg.batch)
  /\ UNCHANGED arg
  /\ UNCHANGED pluginVars

NextGroup ==
  \/ ApplyGroupByType
  \/ ApplyGroups

SpecGroup == InitGroup /\ [][NextGroup]_vars

\* ------------------------------------------------- the auto-sync timer
\* the values the interval slider is moved to
Intervals == {1, 2}

\* the settings-tab handlers up to `await this.plugin.saveSettings()`
Reconfigure(s) ==
  /\ loaded
  /\ pending < MaxPending
  /\ settings' = s
  /\ persisted' = s
  /\ pending' = pending + 1
  /\ UNCHANGED <<highlights, clientKey, isSyncing, syncInterval, liveTimers, vault, folders,
                 templateOnDisk, bookTemplate, loaded, now, notice, call, net, written,
                 syncs, restarts>>
  /\ UNCHANGED pureVars

\* the auto-sync toggle: onChange
ToggleAutoSync ==
  Reconfigure([settings EXCEPT !.autoSync = ~settings.autoSync])

\* the interval slider, shown while auto-sync is on: onChange
SetSyncInterval(v) ==
  /\ settings.autoSync
  /\ v # settings.syncInterval
  /\ Reconfigure([settings EXCEPT !.syncInterval = v])

\* saveSettings resolved: updateCredentials, then the handler calls setupAutoSync
SetupAfterSave ==
  /\ pending > 0
  /\ SetupAutoSync(syncInterval, liveTimers, settings).handle <= MaxTimers
  /\ pending' = pending - 1
  /\ clientKey' = settings.apiKey
  /\ syncInterval' = SetupAutoSync(syncInterval, liveTimers, settings).handle
  /\ liveTimers' = SetupAutoSync(syncInterval, liveTimers, settings).live
  /\ UNCHANGED <<settings, persisted, highlights, isSyncing, vault, folders, templateOnDisk,
                 bookTemplate, loaded, now, notice, call, net, written, syncs, restarts>>
  /\ UNCHANGED pureVars

\* onunload: the plugin is disabled in the running host
Unload ==
  /\ loaded
  /\ loaded' = FALSE
  /\ liveTimers' = IF syncInterval # 0 THEN liveTimers \ {syncInterval} ELSE liveTimers
  /\ UNCHANGED <<settings, persisted, highlights, clientKey, isSyncing, syncInterval, vault,
                 folders, templateOnDisk, bookTemplate, pending, now, notice, call, net,
                 written, syncs, restarts>>
  /\ UNCHANGED pureVars

\* onload of a new plugin instance in the running host, once the handlers of
\* the instance before it have returned
Load ==
  /\ ~loaded
  /\ pending = 0
  /\ SetupAutoSync(0, liveTimers, persisted).handle <= MaxTimers
  /\ loaded' = TRUE
  /\ settings' = persisted
  /\ highlights' = persisted.highlights
  /\ clientKey' = persisted.apiKey
  /\ isSyncing' = FALSE
  /\ syncInterval' = SetupAutoSync(0, liveTimers, persisted).handle
  /\ liveTimers' = SetupAutoSync(0, liveTimers, persisted).live
  /\ call' = [c \in Calls |-> IdleCall]
  /\ UNCHANGED <<persisted, vault, folders, templateOnDisk, bookTemplate, pending, now,
                 notice, net, written, syncs, restarts>>
  /\ UNCHANGED pureVars

InitTimer ==
  /\ Init
  /\ templateOnDisk
  /\ bookTemplate = "book"

NextTimer ==
  \/ ToggleAutoSync
  \/ \E v \in Intervals : SetSyncInterval(v)
  \/ SetupAfterSave
  \/ Unload
  \/ Load

SpecTimer == InitTimer /\ [][NextTimer]_vars

\* ---------------------------------------------- auto-linking as a pure function
LinkValues ==
  {Str(<<>>), Str(<<" ">>), Str(<<"a">>), Str(<<"[", "[", "a", "]", "]">>),
   Str(<<"<", "m", "a", "r", "k">>), Str(<<"[", "a">>), Str(<<" ", "[", "[", "a">>),
   [isString |-> FALSE, text |-> <<"4", "2">>]}

LinkFieldLists ==
  {<<>>, <<"author">>, <<"title", "author">>, <<"author", "author">>, <<"url">>}

InitLink ==
  /\ PluginInit
  /\ templateOnDisk
  /\ bookTemplate = "book"
  /\ arg \in {[enableAutoLinking |-> e, autoLinkFields |-> fs,
                data |-> [f \in {"author", "title"} |-> IF f = "author" THEN a ELSE t]] :
                e \in BOOLEAN, fs \in LinkFieldLists, a \in LinkValues, t \in LinkValues}
  /\ result = <<>>
  /\ op = "none"

\* renderTemplate('{{author}} {{title}}', data)
ApplyAutoLink ==
  /\ op = "none"
  /\ op' = "link"
  /\ LET context == ContextData(arg.enableAutoLinking, arg.autoLinkFields, arg.data)
     IN result' = [context |-> context, text |-> RenderFields(context)]
  /\ UNCHANGED arg
  /\ UNCHANGED pluginVars

\* renderTemplate on data that an earlier call has linked
ApplyAutoLinkTwice ==
  /\ op = "none"
  /\ op' = "link2"
  /\ LET once == ContextData(arg.enableAutoLinking, arg.autoLinkFields, arg.data)
         context == ContextData(arg.enableAutoLinking, arg.autoLinkFields, once)
     IN result' = [context |-> context, text |-> RenderFields(context)]
  /\ UNCHANGED arg
  /\ UNCHANGED pluginVars

NextLink ==
  \/ ApplyAutoLink
  \/ ApplyAutoLinkTwice

SpecLink == InitLink /\ [][NextLink]_vars

\* ---------------------------------------------- the text functions on their own
MaxText == 3

\* the characters the inputs are made of: the backslash and the letters it
\* escapes, the entity characters, white space, and characters sanitizeTagName
\* keeps, folds and removes
TextAlphabet == {"\\", "n", "&", ";", NL, " ", "/", "A", "!"}

\* texts with a whole entity or escape in them
LongTexts ==
  {<<"&", "l", "t", ";">>, <<"&", "a", "m", "p", ";">>, <<"&", "a", "m", "p", ";", "a", "m", "p", ";">>,
   <<"&", "a", "m", "p", ";", "l", "t", ";">>, <<"&", "#", "3", "8", ";">>, <<"&", "#", "x", "2", "6", ";">>,
   <<"&", "#", "3", "8", ";", "l", "t", ";">>, <<"&", "n", "b", "s", "p", ";">>,
   <<"a", "\\", "n", "\\", "n", "b">>, <<"a", "\\", "\\", "n", "b">>, <<"\\", "\"", "\\", "t", "\\", "r">>,
   <<NL, "a", NL, NL, "b", NL>>, <<"T", "o", " ", "R", "e", "a", "d", "/", "/", "2", "_", "x", "-">>}

TextInputs == UNION {[1..n -> TextAlphabet] : n \in 0..MaxText} \cup LongTexts

\* the source record the service sends for one highlight of a source
SourceNamed(name, content) ==
  [name |-> name, type |-> "book", created_at |-> <<>>,
   highlights |-> << [id |-> "h1", content |-> content, created_at |-> <<"1">>] >>]

InitText ==
  /\ PluginInit
  /\ templateOnDisk
  /\ bookTemplate = "book"
  /\ arg \in TextInputs
  /\ result = <<>>
  /\ op = "none"

\* the decode_html and decode_text filters
ApplyDecode ==
  /\ op = "none"
  /\ op' = "decode"
  /\ result' = PluginDecodeHtmlEntities(arg)
  /\ UNCHANGED arg
  /\ UNCHANGED pluginVars

\* the decoder on text it has decoded
ApplyDecodeTwice ==
  /\ op = "none"
  /\ op' = "decode2"
  /\ result' = PluginDecodeHtmlEntities(PluginDecodeHtmlEntities(arg))
  /\ UNCHANGED arg
  /\ UNCHANGED pluginVars

\* the blockquote filter
ApplyBlockquote ==
  /\ op = "none"
  /\ op' = "blockquote"
  /\ result' = BlockquoteFilter(arg)
  /\ UNCHANGED arg
  /\ UNCHANGED pluginVars

\* formatAsBlockquote
ApplyFormatAsBlockquote ==
  /\ op = "none"
  /\ op' = "formatAsBlockquote"
  /\ result' = FormatAsBlockquote(arg)
  /\ UNCHANGED arg
  /\ UNCHANGED pluginVars

\* the sanitize_tag filter
ApplySanitizeTag ==
  /\ op = "none"
  /\ op' = "sanitize_tag"
  /\ result' = SanitizeTagName(arg)
  /\ UNCHANGED arg
  /\ UNCHANGED pluginVars

\* the flattening of a page whose one source has the text as its name and
\* as the content of its highlight
ApplyFlatten ==
  /\ op = "none"
  /\ op' = "flatten"
  /\ result' = Flatten(<<SourceNamed(arg, arg)>>)
  /\ UNCHANGED arg
  /\ UNCHANGED pluginVars

NextText ==
  \/ ApplyDecode
  \/ ApplyDecodeTwice
  \/ ApplyBlockquote
  \/ ApplyFormatAsBlockquote
  \/ ApplySanitizeTag
  \/ ApplyFlatten

SpecText == InitText /\ [][NextText]_vars

\* ------------------------------------------ the API key changed during a fetch
\* the API key field of the settings tab: onChange up to the await inside
\* saveSettings
EnterApiKey(k) ==
  /\ k # settings.apiKey
  /\ Reconfigure([settings EXCEPT !.apiKey = k])

\* saveData resolved: saveSettings calls updateCredentials
CredentialsUpdated ==
  /\ pending > 0
  /\ pending' = pending - 1
  /\ clientKey' = settings.apiKey
  /\ UNCHANGED <<settings, persisted, highlights, isSyncing, syncInterval, liveTimers, vault,
                 folders, templateOnDisk, bookTemplate, loaded, now, notice, call, net,
                 written, syncs, restarts>>
  /\ UNCHANGED pureVars

InitKey ==
  /\ PluginInitFrom([DEFAULT_SETTINGS EXCEPT !.apiKey = "k1"])
  /\ templateOnDisk
  /\ bookTemplate = "book"
  /\ arg = NoArg
  /\ result = <<>>
  /\ op = "none"

NextKey ==
  \/ SyncStart(FALSE)
  \/ \E c \in Calls : ReceivePage(c)
  \/ \E k \in ApiKeys : EnterApiKey(k)
  \/ CredentialsUpdated

SpecKey == InitKey /\ [][NextKey]_vars

\* ------------------------------------------- renderTemplate on shared objects
\* Objects live in a heap, a sequence of objects addressed by position; an
\* object maps keys to values, and a value is a string, a reference to an
\* object, or undefined.  A field path is the sequence of keys that
\* path.split('.') yields.
Ref(n) == [isString |-> FALSE, text |-> <<>>, ref |-> n]

Undefined == [isString |-> FALSE, text |-> <<>>, ref |-> 0]

IsRef(v) == ~v.isString /\ "ref" \in DOMAIN v /\ v.ref # 0

\* current && current[key], for a current that is an object or undefined
Member(heap, current, key) ==
  IF IsRef(current) /\ key \in DOMAIN heap[current.ref] THEN heap[current.ref][key]
  ELSE Undefined

\* getNestedValue: path.split('.').reduce((current, key) => current && current[key], obj)
RECURSIVE GetNestedFrom(_, _, _, _)
GetNestedFrom(heap, current, path, i) ==
  IF i > Len(path) THEN current
  ELSE GetNestedFrom(heap, Member(heap, current, path[i]), path, i + 1)

GetNestedValue(heap, obj, path) == GetNestedFrom(heap, Ref(obj), path, 1)

\* the object with one key set
WithKey(object, key, value) ==
  [k \in DOMAIN object \cup {key} |-> IF k = key THEN value ELSE object[k]]

\* setNestedValue: walk the keys before the last, making an empty object
\* where one is missing, and assign the last key of the object reached
RECURSIVE SetNestedFrom(_, _, _, _, _)
SetNestedFrom(heap, target, path, i, value) ==
  IF i = Len(path) THEN [heap EXCEPT ![target] = WithKey(@, path[i], value)]
  ELSE IF IsRef(Member(heap, Ref(target), path[i]))
       THEN SetNestedFrom(heap, Member(heap, Ref(target), path[i]).ref, path, i + 1, value)
       ELSE SetNestedFrom(
              Append([heap EXCEPT ![target] = WithKey(@, path[i], Ref(Len(heap) + 1))], <<>>),
              Len(heap) + 1, path, i + 1, value)

SetNestedValue(heap, obj, path, value) == SetNestedFrom(heap, obj, path, 1, value)

\* the loop over settings.autoLinkFields, from field i on
RECURSIVE AutoLinkPaths(_, _, _, _)
AutoLinkPaths(heap, context, fields, i) ==
  IF i > Len(fields) THEN heap
  ELSE LET value == GetNestedValue(heap, context, fields[i])
       IN IF AutoLinkValue(value) # value
          THEN AutoLinkPaths(SetNestedValue(heap, context, fields[i], AutoLinkValue(value)),
                             context, fields, i + 1)
          ELSE AutoLinkPaths(heap, context, fields, i + 1)

TagPrefix == <<"s", "c", "r", "e", "v", "i">>

\* the heap when renderString is called: contextData is the last object made
\* by { ...data, tag_prefix }, then the fields are linked
RenderContext(heap, data, enableAutoLinking, autoLinkFields) ==
  LET spread == Append(heap, WithKey(heap[data], "tag_prefix", Str(TagPrefix)))
  IN IF enableAutoLinking
     THEN AutoLinkPaths(spread, Len(heap) + 1, autoLinkFields, 1)
     ELSE spread

\* templateData of createBookFiles for a group of one highlight: object 1 is
\* templateData, object 2 the array sourceHighlights, object 3 the highlight
TemplateData(author, highlightAuthor) ==
  << [k \in {"title", "author", "highlights"} |->
        CASE k = "title" -> Str(<<"S">>) [] k = "author" -> author [] OTHER -> Ref(2)],
     [k \in {"0"} |-> Ref(3)],
     [k \in {"content", "author"} |->
        IF k = "content" THEN Str(<<"a">>) ELSE highlightAuthor] >>

FieldPaths ==
  {<<>>, <<<<"author">>>>, <<<<"highlights", "0", "author">>>>,
   <<<<"author">>, <<"highlights", "0", "author">>>>, <<<<"meta", "x">>>>,
   <<<<"title">>, <<"highlights", "0", "content">>>>}

InitRender ==
  /\ PluginInit
  /\ templateOnDisk
  /\ bookTemplate = "book"
  /\ arg \in {[enableAutoLinking |-> e, autoLinkFields |-> fs, heap |-> TemplateData(a, b)] :
                e \in BOOLEAN, fs \in FieldPaths, a \in LinkValues, b \in LinkValues}
  /\ result = <<>>
  /\ op = "none"

\* renderTemplate(bookTemplate, templateData)
ApplyRender ==
  /\ op = "none"
  /\ op' = "render"
  /\ result' = RenderContext(arg.heap, 1, arg.enableAutoLinking, arg.autoLinkFields)
  /\ UNCHANGED arg
  /\ UNCHANGED pluginVars

NextRender == ApplyRender

SpecRender == InitRender /\ [][NextRender]_vars

\* ================================================================ properties
Active == {c \in Calls : call[c].pc \in InProgress}

\* a step of call c that is not the end of the session
StepOf(c) == call'[c] # call[c] /\ restarts' = restarts

\* C1: at most one execution of syncHighlights is between setting and
\* clearing the in-progress flag, whatever the interleaving of triggers.
C1_AtMostOneSync ==
  /\ Cardinality(Active) <= 1
  /\ isSyncing <=> Active # {}

C1_Witness ==
  /\ notice = "already"
  /\ Cardinality(Active) = 1
  /\ syncs = MaxSyncs

\* C2: a call rejected because a sync is in progress changes nothing but the
\* notice: no request, no file, cache and cursor untouched, the flag still
\* set, no call started or queued.
C2_RejectedCallIsNoOp ==
  [][(notice' = "already" /\ notice # "already")
       => /\ isSyncing /\ isSyncing'
          /\ UNCHANGED <<settings, persisted, highlights, clientKey, syncInterval,
                         liveTimers, vault, folders, call, net, written, syncs>>]_vars

C2_Witness ==
  /\ notice = "already"
  /\ isSyncing
  /\ \E c \in Calls : call[c].pc = "fetch" /\ call[c].currentPage = 2

\* C3: when a page request fails the sync ends at once, whatever pages were
\* received, and vault, in-memory and persisted cache and cursor are as they
\* were when the sync started.
C3_FailedFetchCommitsNothing ==
  [][\A c \in Calls :
       (call[c].pc = "fetch" /\ StepOf(c) /\ net'.kind = "error")
         => /\ call'[c].pc = "idle"
            /\ ~isSyncing'
            /\ vault' = call[c].snap.vault
            /\ highlights' = call[c].snap.highlights
            /\ settings'.lastSyncTime = call[c].snap.settings.lastSyncTime
            /\ persisted'.highlights = call[c].snap.persisted.highlights
            /\ persisted'.lastSyncTime = call[c].snap.persisted.lastSyncTime]_vars

C3_Witness ==
  /\ notice = "failed"
  /\ net.kind = "error"
  /\ ~isSyncing
  /\ settings.lastSyncTime > 0
  /\ DOMAIN vault # {}

\* C4: while a sync runs the persisted data never holds the new cache with
\* the old cursor, nor the new cursor with the old cache.
C4_CacheAndCursorAsUnit ==
  \A c \in Active :
    LET pre == call[c].snap.persisted
    IN /\ ~(persisted.highlights # pre.highlights /\ persisted.lastSyncTime = pre.lastSyncTime)
       /\ ~(/\ persisted.lastSyncTime # pre.lastSyncTime
            /\ persisted.highlights = pre.highlights
            /\ highlights # pre.highlights)

\* C5: once a sync has completed successfully, and after later settings
\* saves, the persisted data holds the in-memory cache.
C5_CacheIsPersisted ==
  (notice = "synced" /\ Active = {}) => persisted.highlights = highlights

\* C6 as stated: every sync that completes without error, an empty one
\* included, leaves the persisted cursor at a time of that sync.
C6_CursorSetByEverySync ==
  [][\A c \in Calls :
       (call[c].pc \in InProgress /\ StepOf(c) /\ call'[c].pc = "idle"
        /\ notice' \in {"synced", "nonew"})
         => /\ persisted'.lastSyncTime >= call[c].snap.now
            /\ persisted'.lastSyncTime <= now']_vars

TimestampOf(h) == ParseInt(Or(h.created_at, h.date), 10)

\* C6 amended: a sync that fetched at least one highlight sets the in-memory
\* and the persisted cursor to the time of its commit, whatever the
\* timestamps fetched, and the cursor is still that when the sync returns; a
\* sync that fetched nothing leaves the cursor as it was.
C6_CursorSetByNonEmptySync ==
  [][\A c \in Calls :
       StepOf(c) =>
         /\ (call[c].pc = "saveSettings" /\ call'[c].pc = "finish")
              => persisted'.lastSyncTime = now /\ settings'.lastSyncTime = now
         /\ (call[c].pc = "finish" /\ call'[c].pc = "idle")
              => /\ persisted'.lastSyncTime = settings.lastSyncTime
                 /\ persisted'.lastSyncTime >= call[c].snap.now
                 /\ persisted'.lastSyncTime <= now'
         /\ (call[c].pc = "fetch" /\ call'[c].pc = "idle" /\ notice' = "nonew")
              => /\ persisted'.lastSyncTime = call[c].snap.persisted.lastSyncTime
                 /\ settings'.lastSyncTime = call[c].snap.settings.lastSyncTime]_vars

C6_Witness ==
  \E c \in Calls :
    /\ call[c].pc = "finish"
    /\ persisted.lastSyncTime = now
    /\ now > call[c].snap.now
    /\ \A i \in 1..Len(call[c].unique) : TimestampOf(call[c].unique[i]) # now

\* C7: the page answered is always the one after the pages received, each
\* response is followed by exactly one request for the next page when it is
\* an envelope with hasMore true and by none otherwise, and the result is
\* the flattened sources of all received pages in page order.
C7_SequentialPages ==
  [][\A c \in Calls :
       (call[c].pc = "fetch" /\ StepOf(c) /\ net'.kind # "error")
         => LET all == call[c].allSources \o net'.data
                last == net'.kind \in {"array", "bare_envelope"} \/ ~net'.hasMore
            IN /\ call[c].currentPage = call[c].received + 1
               /\ last => /\ call'[c].pc \in {"process", "idle"}
                          /\ call'[c].pc = "process" => call'[c].fetched = Flatten(all)
                          /\ call'[c].pc = "idle" => Flatten(all) = <<>>
               /\ ~last => /\ call'[c].pc = "fetch"
                           /\ call'[c].currentPage = call[c].currentPage + 1
                           /\ call'[c].received = call[c].received + 1
                           /\ call'[c].allSources = all]_vars

C7_Witness ==
  \E c \in Calls :
    /\ call[c].pc = "process"
    /\ net.kind = "array"
    /\ call[c].fetched = Flatten(<<SrcBook, SrcNote>>)

\* C8: when a sync has written its groups, every highlight of its batch is
\* in the file of its group.
C8_BatchIsInVault ==
  \A c \in Calls :
    call[c].pc = "finish" =>
      \A i \in 1..Len(call[c].unique) :
        LET h == call[c].unique[i]
            path == FilePath(SourceTypeOf(h), SourceOf(h))
        IN path \in DOMAIN vault /\ Includes(vault[path], h.content)

\* C9: a group whose highlights were all written to its file by earlier
\* syncs leaves the file as it is.
C9_NoSecondWrite ==
  [][\A c \in Calls :
       (call[c].pc = "process" /\ StepOf(c))
         => LET g == SourceGroups(call[c].unique)[call[c].group]
                path == FilePath(g.type, g.source)
            IN (\A i \in 1..Len(g.members) : <<path, g.members[i].content>> \in written)
                 => vault' = vault]_vars

\* the identity the data model gives a highlight
IdentityPair(h) == <<h.content, IF h.created_at # <<>> THEN h.created_at ELSE h.date>>

DedupeByPair(hs) ==
  LET keep == {i \in 1..Len(hs) : \A j \in 1..(i - 1) : IdentityPair(hs[j]) # IdentityPair(hs[i])}
  IN SelectIdx(hs, keep, 1)

MergeByPair(unique, cache) ==
  LET keep == {i \in 1..Len(unique) : \A j \in 1..Len(cache) : IdentityPair(cache[j]) # IdentityPair(unique[i])}
  IN SelectIdx(unique, keep, 1) \o cache

\* C10: deduplicateHighlights drops exactly the highlights whose (content,
\* timestamp) pair is the pair of an earlier one, and the cache merge exactly
\* those whose pair is the pair of a cached one; the id plays no part.
C10_SameByPair ==
  /\ op = "dedupe" => result = DedupeByPair(arg.batch)
  /\ op = "merge" => result = MergeByPair(DedupeByPair(arg.batch), arg.cache)

C10_Witness ==
  /\ op = "dedupe"
  /\ arg.batch = <<U1, U2, U3>>
  /\ result = <<U1, U3>>

\* C11: deduplicateHighlights is idempotent: applied to its own result it
\* returns that result, for every highlight sequence.
C11_DedupeIdempotent ==
  op = "dedupe2" => result = DeduplicateHighlights(arg.batch)

C11_Witness ==
  /\ op = "dedupe2"
  /\ arg.batch = <<U1, U2, U1>>
  /\ result = <<U1>>

\* the first index of the key of h in hs, 0 when the key is not in hs
FirstIndexOf(hs, h) ==
  LET at == {i \in 1..Len(hs) : DedupKey(hs[i]) = DedupKey(h)}
  IN IF at = {} THEN 0 ELSE SetMin(at)

\* C12: the result of deduplicateHighlights is never longer than its input
\* and holds, for each key of the input, exactly the first highlight with
\* that key, in the order these first highlights have in the input.
C12_FirstWinsInOrder ==
  op = "dedupe" =>
    /\ Len(result) <= Len(arg.batch)
    /\ \A k \in 1..Len(result) :
         /\ FirstIndexOf(arg.batch, result[k]) > 0
         /\ result[k] = arg.batch[FirstIndexOf(arg.batch, result[k])]
    /\ \A k, l \in 1..Len(result) :
         k < l => FirstIndexOf(arg.batch, result[k]) < FirstIndexOf(arg.batch, result[l])
    /\ \A i \in 1..Len(arg.batch) :
         Cardinality({k \in 1..Len(result) : DedupKey(result[k]) = DedupKey(arg.batch[i])}) = 1

C12_Witness ==
  /\ op = "dedupe"
  /\ arg.batch = <<U2, U3, U1>>
  /\ result = <<U2, U3>>

NoTwoWithOneKey(hs) ==
  \A i, j \in 1..Len(hs) : i # j => DedupKey(hs[i]) # DedupKey(hs[j])

KeysOf(hs) == {DedupKey(hs[i]) : i \in 1..Len(hs)}

\* C13: a cache that holds no key twice holds none twice after any step; the
\* merge of a sync keeps every cached highlight in its previous relative
\* order and adds each batch highlight whose key was not cached exactly once.
C13_CacheInvariant ==
  [][NoTwoWithOneKey(highlights) =>
       /\ NoTwoWithOneKey(highlights')
       /\ \A c \in Calls :
            (call[c].pc = "merge" /\ StepOf(c)) =>
              /\ SelectIdx(highlights',
                           {k \in 1..Len(highlights') :
                              DedupKey(highlights'[k]) \in KeysOf(highlights)}, 1)
                   = highlights
              /\ \A i \in 1..Len(call[c].fetched) :
                   Cardinality({k \in 1..Len(highlights') :
                                  DedupKey(highlights'[k]) = DedupKey(call[c].fetched[i])}) = 1]_vars

C13_Witness ==
  \E c \in Calls :
    /\ call[c].pc = "saveCache"
    /\ Len(call[c].snap.highlights) = 2
    /\ Len(call[c].fetched) = 3
    /\ Len(highlights) = 3

\* C14: two groups of one sync that differ in source type or source name
\* never read or write the same file path.
C14_GroupsHaveOwnFiles ==
  op = "groups" =>
    \A i, j \in 1..Len(result) :
      (result[i].type # result[j].type \/ result[i].source # result[j].source)
        => FilePath(result[i].type, result[i].source) # FilePath(result[j].type, result[j].source)

\* the type the data model files a highlight under
ExpectedType(h) ==
  IF h.sourceType \in {"book", "tweet", "self", "article", "youtube"} THEN h.sourceType ELSE "self"

\* C15: groupHighlightsBySourceType partitions its input: the groups have
\* distinct keys, none is empty, and each holds, in input order, exactly the
\* highlights whose sourceType is its key, or, for self, is absent, empty or
\* not one of the five types.
C15_TypePartition ==
  op = "byType" =>
    /\ \A g, k \in 1..Len(result) : g # k => result[g].key # result[k].key
    /\ \A g \in 1..Len(result) :
         /\ result[g].members # <<>>
         /\ result[g].members
              = SelectIdx(arg.batch,
                          {i \in 1..Len(arg.batch) : ExpectedType(arg.batch[i]) = result[g].key}, 1)
    /\ \A i \in 1..Len(arg.batch) :
         \E g \in 1..Len(result) : result[g].key = ExpectedType(arg.batch[i])

C15_Witness ==
  /\ op = "byType"
  /\ arg.batch = <<G1, G3, G4>>
  /\ result = <<[key |-> "book", members |-> <<G1>>], [key |-> "self", members |-> <<G3, G4>>]>>

\* C16: while the API key is empty no call of syncHighlights starts a sync:
\* no call leaves idle, the in-progress flag is not set, and the rejected
\* call changes nothing but the notice: no request, no file, cache and cursor
\* untouched, no timer or call scheduled.
C16_NoKeyNoSync ==
  [][settings.apiKey = "" =>
       /\ \A c \in Calls : call[c].pc = "idle" => call'[c].pc = "idle"
       /\ ~isSyncing => ~isSyncing'
       /\ syncs' = syncs
       /\ (notice' = "nokey" /\ notice # "nokey")
            => UNCHANGED <<settings, persisted, highlights, clientKey, isSyncing,
                           syncInterval, liveTimers, vault, folders, call, net, written>>]_vars

C16_Witness ==
  /\ notice = "nokey"
  /\ settings.apiKey = ""
  /\ ~isSyncing
  /\ DOMAIN vault # {}
  /\ settings.lastSyncTime > 0

\* C17: renderTemplate never throws: a group whose file is created from a
\* template that does not compile gets a file that begins with "Template
\* Error:", the sync goes on to the next group or to the commit, no sync ends
\* with a template error, and a sync that reaches its end has merged its
\* batch into the cache and saved the cursor.
C17_TemplateErrorIsRendered ==
  [][\A c \in Calls :
       /\ notice' # "failed: template"
       /\ (call[c].pc = "process" /\ StepOf(c) /\ vault' # vault
            /\ templateOnDisk /\ bookTemplate = "broken")
            => LET g == SourceGroups(call[c].unique)[call[c].group]
                   path == FilePath(g.type, g.source)
               IN /\ path \notin DOMAIN vault
                       => StartsWith(vault'[path], TemplateError(<<>>))
                  /\ call'[c].group = call[c].group + 1
                  /\ call'[c].pc = IF call[c].group = Len(SourceGroups(call[c].unique))
                                   THEN "merge" ELSE "process"
       /\ (call[c].pc = "saveSettings" /\ call'[c].pc = "finish")
            => /\ KeysOf(call[c].unique) \subseteq KeysOf(highlights')
               /\ persisted'.lastSyncTime = now]_vars

C17_Witness ==
  \E c \in Calls :
    /\ call[c].pc = "finish"
    /\ templateOnDisk
    /\ bookTemplate = "broken"
    /\ Cardinality(DOMAIN vault) = 2
    /\ \A q \in DOMAIN vault : vault[q] = TemplateError(ErrorMessage)
    /\ Len(highlights) = 3
    /\ persisted.lastSyncTime = now

\* C18: when a folder or file operation fails while the groups are processed
\* the sync ends as failed at once: nothing more is written, the in-memory
\* and persisted cache and cursor are as they were when the sync started, and
\* the in-progress flag is cleared, so the next trigger is not rejected.
C18_StorageFailureAbortsSync ==
  [][\A c \in Calls :
       (call[c].pc = "process" /\ StepOf(c) /\ call'[c].pc = "idle")
         => /\ notice' = "failed"
            /\ ~isSyncing'
            /\ \A d \in Calls : call'[d].pc = "idle"
            /\ vault' = vault
            /\ written' = written
            /\ highlights' = call[c].snap.highlights
            /\ settings'.lastSyncTime = call[c].snap.settings.lastSyncTime
            /\ persisted'.highlights = call[c].snap.persisted.highlights
            /\ persisted'.lastSyncTime = call[c].snap.persisted.lastSyncTime]_vars

C18_Witness ==
  /\ notice = "failed"
  /\ net.kind = "envelope"
  /\ ~isSyncing
  /\ Cardinality(DOMAIN vault) = 1
  /\ highlights = <<>>
  /\ persisted.lastSyncTime = 0
  /\ syncs = 1

\* C19: at most one auto-sync timer is live, and none is live once the
\* plugin is unloaded or, with no reconfiguration under way, auto-sync is off.
C19_AtMostOneTimer ==
  /\ Cardinality(liveTimers) <= 1
  /\ ~loaded => liveTimers = {}
  /\ (loaded /\ pending = 0 /\ ~settings.autoSync) => liveTimers = {}

\* a value auto-linking rewrites
Linkable(v) ==
  /\ v.isString
  /\ \E i \in 1..Len(v.text) : v.text[i] \notin WhiteSpace
  /\ ~(Len(v.text) >= 2 /\ v.text[1] = "[" /\ v.text[2] = "[")
  /\ ~(Len(v.text) >= 5 /\ SubSeq(v.text, 1, 5) = <<"<", "m", "a", "r", "k">>)

\* C20: with auto-linking enabled the value v of each configured field is
\* rewritten to [[v]] exactly when v is a non-blank string that does not
\* start with [[ or <mark, every other value is left as it is, with
\* auto-linking disabled nothing is rewritten, and linking linked data
\* again changes nothing.
C20_AutoLink ==
  /\ op = "link" =>
       \A f \in DOMAIN arg.data :
         LET v == arg.data[f]
             configured == \E i \in 1..Len(arg.autoLinkFields) : arg.autoLinkFields[i] = f
         IN result.context[f] =
              IF arg.enableAutoLinking /\ configured /\ Linkable(v)
              THEN [isString |-> TRUE, text |-> <<"[", "[">> \o v.text \o <<"]", "]">>]
              ELSE v
  /\ op = "link2" =>
       result.context = ContextData(arg.enableAutoLinking, arg.autoLinkFields, arg.data)

C20_Witness ==
  /\ op = "link2"
  /\ arg.enableAutoLinking
  /\ arg.autoLinkFields = <<"author", "author">>
  /\ arg.data["author"] = Str(<<"a">>)
  /\ arg.data["title"] = Str(<<"a">>)
  /\ result.text = <<"[", "[", "a", "]", "]", " ", "a">>

\* C21: every highlight fetchHighlightsSince returns carries entity-decoded
\* text: its content is the decoded upstream content, and its source and its
\* title are both the decoded upstream source name.
C21_FlattenDecodes ==
  op = "flatten" =>
    \A i \in 1..Len(result) :
      /\ result[i].content = DecodeHtmlEntities(arg)
      /\ result[i].source = DecodeHtmlEntities(arg)
      /\ result[i].title = DecodeHtmlEntities(arg)

\* the part of C21 the client keeps: content and title are decoded
C21_ContentAndTitleDecoded ==
  op = "flatten" =>
    /\ Len(result) = 1
    /\ \A i \in 1..Len(result) :
         /\ result[i].content = DecodeHtmlEntities(arg)
         /\ result[i].title = DecodeHtmlEntities(arg)

\* the lines of a blockquote: one for each line of the text, a non-blank line
\* prefixed by "> ", a blank one replaced by a bare ">"
QuotedLineByLine(in, out) ==
  /\ Len(out) = Len(in)
  /\ \A i \in 1..Len(out) :
       /\ StartsWith(out[i], <<">">>)
       /\ out[i] = (IF IsBlank(in[i]) THEN <<">">> ELSE <<">", " ">> \o in[i])

\* C22 as stated: the blockquote filter applied to any N-line input produces
\* exactly N lines, each starting with ">": a non-blank line is prefixed by
\* "> ", a blank one replaced by a bare ">".
C22_EveryInputLineQuoted ==
  op \in {"blockquote", "formatAsBlockquote"} =>
    /\ Len(SplitLines(result)) = Len(SplitLines(arg))
    /\ \A i \in 1..Len(SplitLines(result)) : StartsWith(SplitLines(result)[i], <<">">>)

\* C22: the blockquote filter returns an empty or blank input as it is; any
\* other input is decoded and trimmed, and the output has exactly one line
\* for each line of that text, each starting with ">": a non-blank line is
\* prefixed by "> ", a blank one replaced by a bare ">".  formatAsBlockquote
\* does the same without decoding.
C22_TrimmedLinesQuoted ==
  /\ op = "blockquote" =>
       IF IsBlank(arg) THEN result = arg
       ELSE QuotedLineByLine(SplitLines(Trim(PluginDecodeHtmlEntities(arg))), SplitLines(result))
  /\ op = "formatAsBlockquote" =>
       IF IsBlank(arg) THEN result = arg
       ELSE QuotedLineByLine(SplitLines(Trim(arg)), SplitLines(result))

\* a text with blank lines around and inside it has been quoted: the outer
\* ones are gone, the inner one is a bare ">"
C22_Witness ==
  /\ op = "blockquote"
  /\ Len(SplitLines(arg)) > Len(SplitLines(result))
  /\ \E i \in 1..Len(SplitLines(result)) : SplitLines(result)[i] = <<">">>
  /\ \E i \in 1..Len(SplitLines(result)) : StartsWith(SplitLines(result)[i], <<">", " ">>)

\* the text s has something the decoder rewrites: a backslash sequence, a
\* named entity, or a decimal or hexadecimal character reference
HasEscape(s) ==
  \E i \in 1..(Len(s) - 1) : s[i] = "\\" /\ s[i + 1] \in {"n", "t", "r", "\"", "\\"}

HasNamedEntity(s) == \E k \in DOMAIN Entities : Includes(s, Entities[k][1])

HasReference(s, prefix, cs) ==
  \E i \in 1..Len(s) :
    LET rest == SubSeq(s, i + Len(prefix), Len(s))
    IN /\ StartsWith(SubSeq(s, i, Len(s)), prefix)
       /\ RunLen(rest, cs) > 0
       /\ Len(rest) > RunLen(rest, cs)
       /\ rest[RunLen(rest, cs) + 1] = ";"

HasPattern(s) ==
  \/ HasEscape(s)
  \/ HasNamedEntity(s)
  \/ HasReference(s, <<"&", "#">>, Digits)
  \/ HasReference(s, <<"&", "#", "x">>, HexDigits)

\* C23 as stated: the decoder converges after one pass, decode(decode(s)) =
\* decode(s) for every s.
C23_DecodeIdempotent ==
  op = "decode2" => result = PluginDecodeHtmlEntities(arg)

\* C23: decode(decode(s)) = decode(s) whenever decode(s) has no escape or
\* entity pattern left in it, and decode(s) = s for a text with no pattern.
C23_DecodeConvergesOnCleanText ==
  /\ (op = "decode2" /\ ~HasPattern(PluginDecodeHtmlEntities(arg))) =>
       result = PluginDecodeHtmlEntities(arg)
  /\ (op = "decode" /\ ~HasPattern(arg)) => result = arg

\* a text with a pattern has been decoded twice, and the first pass had left
\* no pattern
C23_Witness ==
  /\ op = "decode2"
  /\ HasPattern(arg)
  /\ ~HasPattern(PluginDecodeHtmlEntities(arg))
  /\ result # arg

\* a text with no pattern has been decoded
C23_WitnessClean ==
  /\ op = "decode"
  /\ ~HasPattern(arg)
  /\ Len(arg) = MaxText

\* C24: the output of sanitize_tag contains only lowercase letters, digits,
\* underscores, hyphens and forward slashes, never two slashes in a row, and
\* neither begins nor ends with a slash.
C24_SanitizedTag ==
  op = "sanitize_tag" =>
    /\ \A i \in 1..Len(result) : result[i] \in Range(LowerCase) \cup Digits \cup {"_", "-", "/"}
    /\ ~Includes(result, <<"/", "/">>)
    /\ Len(result) > 0 => (result[1] # "/" /\ result[Len(result)] # "/")

\* a tag with white space, capitals and a double slash inside has been
\* sanitized and kept one slash
C24_Witness ==
  /\ op = "sanitize_tag"
  /\ Includes(arg, <<"/", "/">>)
  /\ \E i \in 1..Len(arg) : arg[i] \in Range(UpperCase)
  /\ \E i \in 1..Len(arg) : arg[i] \in WhiteSpace
  /\ Includes(result, <<"/">>)

\* JSON string unescaping of the five sequences, left to right: a backslash
\* and the character after it are read together
RECURSIVE JsonUnescape(_)
JsonUnescape(s) ==
  IF Len(s) < 2 THEN s
  ELSE IF s[1] = "\\" /\ s[2] \in {"n", "t", "r", "\"", "\\"}
       THEN <<(CASE s[2] = "n" -> NL [] s[2] = "t" -> "\t" [] s[2] = "r" -> "\r"
                 [] OTHER -> s[2])>> \o JsonUnescape(SubSeq(s, 3, Len(s)))
       ELSE <<s[1]>> \o JsonUnescape(Tail(s))

\* C29: the decoder resolves the backslash sequences for newline, tab,
\* carriage return, double quote and backslash exactly as JSON string
\* unescaping does, left to right: an escaped backslash followed by the
\* letter n yields a backslash and the letter n.
C29_EscapesAsJson ==
  (op = "decode" /\ \A i \in 1..Len(arg) : arg[i] # "&") => result = JsonUnescape(arg)

\* the sequences that do not follow a backslash are resolved as JSON does
C29_SingleEscapesAsJson ==
  (op = "decode" /\ ~Includes(arg, <<"\\", "\\">>) /\ \A i \in 1..Len(arg) : arg[i] # "&") =>
    result = JsonUnescape(arg)

\* C25: every sync that enters Syncing eventually returns the orchestrator
\* to Idle with the in-progress flag false (on success, on an empty fetch, on
\* a fetch or storage failure), provided every network and storage call
\* eventually returns or fails and the service eventually answers a page with
\* hasMore false; after that a new trigger is accepted.
C25_SyncReturnsToIdle ==
  /\ [](isSyncing => <>(~isSyncing /\ Active = {}))
  /\ []((~isSyncing /\ HasApiKey /\ syncs < MaxSyncs) => ENABLED SyncStart(FALSE))

\* a sync has gone through a second page, the files, the cache and the cursor
\* and has returned to Idle
C25_Witness ==
  /\ syncs > 0
  /\ restarts = 0
  /\ ~isSyncing
  /\ Active = {}
  /\ notice = "synced"

\* the highlights of a response as the client maps them
Delivered(r) == Flatten(ResponseData(r))

\* C26: an incremental sync sends start_from equal to the persisted cursor
\* and receives only highlights at or after it, so a highlight that becomes
\* available upstream with a timestamp older than the cursor (the cursor is
\* the commit time of a sync) is never delivered by a later incremental sync;
\* a forced full sync sends no start_from and is the only one that gets it.
C26_IncrementalSinceCursor ==
  [][\A c \in Calls :
       /\ (call[c].pc = "idle" /\ call'[c].pc = "fetch") =>
            /\ ~call'[c].fullSync =>
                 /\ call'[c].start_from = persisted.lastSyncTime
                 /\ ParseInt(StartFromParam(call'[c].start_from), 10) = persisted.lastSyncTime
            /\ call'[c].fullSync => StartFromParam(call'[c].start_from) = <<>>
       /\ (call[c].pc = "fetch" /\ call'[c] # call[c] /\ ~call[c].fullSync /\ net'.kind # "error") =>
            \A i \in 1..Len(Delivered(net')) :
              TimestampOf(Delivered(net')[i]) >= persisted.lastSyncTime]_vars

\* after a commit at time 2 an incremental sync is fetching from the cursor
\* and has been given a first page
C26_Witness ==
  \E c \in Calls :
    /\ call[c].pc = "fetch"
    /\ ~call[c].fullSync
    /\ persisted.lastSyncTime = 2
    /\ call[c].start_from = 2
    /\ call[c].received = 1
    /\ call[c].allSources # <<>>

\* a forced full sync after the same commit is given a highlight older than
\* the cursor
C26_WitnessFullSync ==
  \E c \in Calls :
    /\ call[c].pc = "fetch"
    /\ call[c].fullSync
    /\ persisted.lastSyncTime = 2
    /\ \E i \in 1..Len(Flatten(call[c].allSources)) :
         TimestampOf(Flatten(call[c].allSources)[i]) < persisted.lastSyncTime

\* the group a call at the file-writing stage is about to write, and its file
GroupOf(c) == SourceGroups(call[c].unique)[call[c].group]

PathOf(c) == FilePath(GroupOf(c).type, GroupOf(c).source)

\* the block of one highlight: newline, the quoted content, a blank line,
\* ---, newline
BlockOf(content) ==
  <<NL>> \o FormatAsBlockquote(content) \o <<NL>> \o <<NL>> \o <<"-", "-", "-">> \o <<NL>>

\* the blocks of the members whose content the old text does not contain, in
\* the order of the batch, from member i on
RECURSIVE NewBlocks(_, _, _)
NewBlocks(old, members, i) ==
  IF i > Len(members) THEN <<>>
  ELSE (IF Includes(old, members[i].content) THEN <<>> ELSE BlockOf(members[i].content))
       \o NewBlocks(old, members, i + 1)

\* C27: for a group whose file exists a sync only appends: the new content is
\* the old content followed by one block for each highlight of the batch
\* whose content is not a substring of the old content, in batch order; when
\* there is none the file is not written; the template is rendered only when
\* the file does not exist.
C27_ExistingFileOnlyAppended ==
  [][\A c \in Calls :
       (call[c].pc = "process" /\ StepOf(c) /\ PathOf(c) \in DOMAIN vault /\ notice' # "failed") =>
         /\ DOMAIN vault' = DOMAIN vault
         /\ \A q \in DOMAIN vault : q # PathOf(c) => vault'[q] = vault[q]
         /\ StartsWith(vault'[PathOf(c)], vault[PathOf(c)])
         /\ vault'[PathOf(c)] = vault[PathOf(c)] \o NewBlocks(vault[PathOf(c)], GroupOf(c).members, 1)
         /\ NewBlocks(vault[PathOf(c)], GroupOf(c).members, 1) = <<>> => vault' = vault
         /\ notice' = notice
         /\ call'[c].pc \in {"process", "merge"}]_vars

\* a sync has appended to a file that was in the vault when it started
C27_Witness ==
  \E c \in Calls : \E p \in DOMAIN vault :
    /\ call[c].pc \in {"process", "merge"}
    /\ call[c].group > 1
    /\ call[c].snap.vault # <<>>
    /\ p \in DOMAIN call[c].snap.vault
    /\ vault[p] # call[c].snap.vault[p]
    /\ StartsWith(vault[p], call[c].snap.vault[p])

\* call c issues a page request in this step
IssuesRequest(c) == Len(call'[c].keys) > Len(call[c].keys)

\* C28: saving settings with a changed API key reconfigures the running
\* client: every page request issued after the save, the remaining pages of
\* a fetch in flight included, carries the new key, so that one fetch may mix
\* pages under two keys.
C28_RequestsCarrySavedKey ==
  [][\A c \in Calls :
       IssuesRequest(c) =>
         /\ call'[c].keys[Len(call'[c].keys)] = clientKey
         /\ pending = 0 => call'[c].keys[Len(call'[c].keys)] = persisted.apiKey]_vars

\* the key has been changed and saved between the first and the second page
\* of a fetch: the two requests carried different keys
C28_Witness ==
  \E c \in Calls :
    /\ call[c].pc = "fetch"
    /\ Len(call[c].keys) = 2
    /\ call[c].keys[1] # call[c].keys[2]
    /\ call[c].keys[2] = persisted.apiKey
    /\ pending = 0

\* C30: renderTemplate leaves its caller's data unchanged: tag_prefix and the
\* links go into a copy, so for every configured auto-link field path, dotted
\* paths into nested objects included, neither the data object passed in nor
\* any highlight reachable from it has a field rewritten by a render.
C30_CallerDataUnchanged ==
  op = "render" => \A a \in 1..Len(arg.heap) : result[a] = arg.heap[a]

\* the part of C30 that holds: the data object passed in is left as it was,
\* and with top-level field names only so is every object
C30_TopLevelFieldsLeaveDataUnchanged ==
  op = "render" =>
    /\ result[1] = arg.heap[1]
    /\ (\A i \in 1..Len(arg.autoLinkFields) : Len(arg.autoLinkFields[i]) = 1) =>
         \A a \in 1..Len(arg.heap) : result[a] = arg.heap[a]

====
